---- MODULE Spec2Model ----
(***************************************************************************)
(* The SnakeGame component (src/unnamed/part_000) as a state machine.      *)
(*                                                                         *)
(* Every action is one browser task: an event handler or one animation     *)
(* frame callback, together with the React re-render it causes and the     *)
(* "start game loop" effect of that render (lines 165-180).  The closures  *)
(* a handler reads (gameState, direction, food, score, level, highScore)   *)
(* are those of the latest render, because each render re-registers the    *)
(* keydown listener and the frame callback.                                *)
(*                                                                         *)
(* Time.  The code reads the clock only in the difference                  *)
(* currentTime - lastMoveTimeRef.current (line 156), so the model keeps    *)
(* that difference, sinceLastMove, saturating at TimeCap (which is at      *)
(* least twice the largest tick interval, so every comparison the code or  *)
(* a property makes is exact).  performance.now() in the effect and the    *)
(* frame timestamp of the same task are the same instant.                  *)
(***************************************************************************)
EXTENDS Integers, Sequences, FiniteSets

VARIABLES
    gameState,      \* useState, line 33
    snake,          \* useState, line 34: sequence of cells, head first
    direction,      \* useState, line 35
    food,           \* useState, line 36
    score,          \* useState, line 37
    highScore,      \* useState, line 38 (loaded from localStorage, lines 52-55)
    speed,          \* useState, line 39: the tick interval in ms
    level,          \* useState, line 40
    sinceLastMove,  \* clock - lastMoveTimeRef.current (line 29), saturated
    rafPending,     \* gameLoopRef (line 28): a frame callback is requested
    moves,          \* history: simulation steps executed so far
    observing,      \* whether the two history variables below are recorded
    lastStepDir,    \* history: heading used by the latest step of this game
    mark            \* history: the latest entry into playing, or step, and
                    \* the time since it

prog == <<gameState, snake, direction, food, score, highScore, speed, level,
          sinceLastMove, rafPending>>
hist == <<lastStepDir, mark>>
vars == <<prog, moves, observing, hist>>

(***************************************************************************)
(* Program constants                                                       *)
(***************************************************************************)
GRID_SIZE == 20
INITIAL_SPEED == 150
SPEED_INCREASE == 10
MIN_SPEED == 50
LEVEL_SCORE == 5
START_XY == 10
FOOD_XY == 15

DirectionNames == {"UP", "DOWN", "LEFT", "RIGHT"}

DIRECTIONS ==
    [d \in DirectionNames |->
        CASE d = "UP"    -> [x |-> 0,  y |-> -1]
          [] d = "DOWN"  -> [x |-> 0,  y |-> 1]
          [] d = "LEFT"  -> [x |-> -1, y |-> 0]
          [] d = "RIGHT" -> [x |-> 1,  y |-> 0]]

GameStates == {"menu", "playing", "paused", "gameOver"}

KeyCodes == {"Space", "Enter", "KeyR", "ArrowUp", "KeyW", "ArrowDown", "KeyS",
             "ArrowLeft", "KeyA", "ArrowRight", "KeyD", "Escape"}

Buttons == {"start", "pause", "restart"}

\* the keys pressed in the model: every command, each direction by an arrow
\* key or a letter key, and a key the handler ignores
PressedKeys == {"Space", "Enter", "KeyR", "ArrowUp", "ArrowDown", "KeyA", "KeyD",
                "Escape"}

(***************************************************************************)
(* Bounds of the model                                                     *)
(***************************************************************************)
\* the clock advances in units of TimeStep ms
TimeStep == 75
\* sinceLastMove and mark.since saturate here
TimeCap == 300
\* simulation steps explored
MaxMoves == 12
\* simulation steps explored while the history is recorded
MaxObservedMoves == 3
\* the high score found in localStorage at mount is in 0..MaxSavedHighScore
MaxSavedHighScore == 1
\* a mid-game start has a score in 0..MaxMidScore
MaxMidScore == 55
\* simulation steps explored from a mid-game start
MidMoves == 2

\* the values Math.floor(Math.random() * GRID_SIZE) is drawn from (lines 88-89)
RandomXs == {15, 16}
RandomYs == {15, 16}

Min(a, b) == IF a < b THEN a ELSE b
Max(a, b) == IF a > b THEN a ELSE b

Cells(s) == {s[i] : i \in 1..Len(s)}

(***************************************************************************)
(* Pure functions of the component                                         *)
(***************************************************************************)
\* generateFood compared with the snake before the new head was added
generateFoodBeforeGrowth(snakePositions) ==
    {c \in [x : RandomXs, y : RandomYs] : c \notin Cells(Tail(snakePositions))}

\* generateFood, lines 84-93: the cells the do-while loop can return
\* (with none to return the loop never ends, and the step that called it
\* never completes)
generateFood(snakePositions) ==
    {c \in [x : RandomXs, y : RandomYs] : c \notin Cells(snakePositions)}

\* checkCollision with the walls one cell too far out
checkCollisionWide(head, body) ==
    IF head.x < 0 \/ head.x > GRID_SIZE \/ head.y < 0 \/ head.y > GRID_SIZE
    THEN TRUE
    ELSE \E i \in 1..Len(body) : body[i].x = head.x /\ body[i].y = head.y

\* a collision test that leaves out the tail cell, which a plain step vacates
checkCollisionSparingTail(head, body) ==
    IF head.x < 0 \/ head.x >= GRID_SIZE \/ head.y < 0 \/ head.y >= GRID_SIZE
    THEN TRUE
    ELSE \E i \in 1..(Len(body) - 1) :
             body[i].x = head.x /\ body[i].y = head.y

\* a collision test for the walls alone
checkCollisionWallsOnly(head, body) ==
    head.x < 0 \/ head.x >= GRID_SIZE \/ head.y < 0 \/ head.y >= GRID_SIZE

\* checkCollision, lines 96-103
checkCollision(head, body) ==
    IF head.x < 0 \/ head.x >= GRID_SIZE \/ head.y < 0 \/ head.y >= GRID_SIZE
    THEN TRUE
    ELSE \E i \in 1..Len(body) : body[i].x = head.x /\ body[i].y = head.y

\* the next head with the vertical axis the other way up
NextHeadFlipped(s, d) ==
    [x |-> s[1].x + DIRECTIONS[d].x, y |-> s[1].y - DIRECTIONS[d].y]

\* lines 111-115
NextHead(s, d) ==
    [x |-> s[1].x + DIRECTIONS[d].x, y |-> s[1].y + DIRECTIONS[d].y]

\* a meal worth two points
NewScoreTwo(sc) == sc + 2

\* line 134
NewScore(sc) == sc + 1

\* a plain step that drops two cells
PopTwo(s) == SubSeq(s, 1, Len(s) - 2)

\* a plain step that drops no cell
PopNone(s) == s

\* line 147, newSnake.pop()
Pop(s) == SubSeq(s, 1, Len(s) - 1)

\* a collision that never records the score
HighScoreAfterCollisionKept(sc, hs) == hs

\* the high score overwritten at every collision
HighScoreAfterCollisionAlways(sc, hs) == sc

\* lines 123-124: the high score after a terminal collision
HighScoreAfterCollision(sc, hs) == IF sc > hs THEN sc ELSE hs

\* line 430: the condition under which the game-over overlay shows
\* "NEW HIGH SCORE"
NewHighScoreShown(sc, hs) == sc = hs /\ sc > 0

\* line 140
NewLevel(newScore) == (newScore \div LEVEL_SCORE) + 1

\* line 143
NewSpeed(newLevel) ==
    Max(MIN_SPEED, INITIAL_SPEED - (newLevel - 1) * SPEED_INCREASE)

\* an eating step that never calls setLevel
LevelAfterEatingKept(newLevel, lvl) == lvl

\* lines 141-142: the level after an eating step
LevelAfterEating(newLevel, lvl) == IF newLevel # lvl THEN newLevel ELSE lvl

\* an eating step that computes the new speed without its floor
SpeedAfterEatingNoFloor(newLevel, lvl, spd) ==
    IF newLevel # lvl
    THEN INITIAL_SPEED - (newLevel - 1) * SPEED_INCREASE
    ELSE spd

\* lines 141-145: the speed after an eating step
SpeedAfterEating(newLevel, lvl, spd) ==
    IF newLevel # lvl THEN NewSpeed(newLevel) ELSE spd

\* the frame callback stepping as soon as any time has passed
StepDueAnyTime(gs, elapsed, spd) == gs = "playing" /\ elapsed > 0

\* line 156: the condition under which a frame callback runs moveSnake
StepDue(gs, elapsed, spd) == gs = "playing" /\ elapsed >= spd

\* the baseline moved on by one interval, keeping the backlog
ElapsedAfterStepCatchUp(elapsed, spd) == elapsed - spd

\* line 158, lastMoveTimeRef.current = currentTime: the new clock difference
ElapsedAfterStep(elapsed, spd) == 0

\* lines 304-318: the direction a key asks for, "NONE" for any other key
KeyDirection(code) ==
    CASE code \in {"ArrowUp", "KeyW"}    -> "UP"
      [] code \in {"ArrowDown", "KeyS"}  -> "DOWN"
      [] code \in {"ArrowLeft", "KeyA"}  -> "LEFT"
      [] code \in {"ArrowRight", "KeyD"} -> "RIGHT"
      [] OTHER -> "NONE"

\* lines 306, 310, 314, 318: the current direction that blocks a request
Blocker(d) ==
    CASE d = "UP"    -> "DOWN"
      [] d = "DOWN"  -> "UP"
      [] d = "LEFT"  -> "RIGHT"
      [] d = "RIGHT" -> "LEFT"

\* a direction key with no check of the current direction
TurnedUnchecked(cur, d) == d

\* lines 306-318: the direction after a key asking for d
Turned(cur, d) == IF cur # Blocker(d) THEN d ELSE cur

(***************************************************************************)
(* The "start game loop" effect, lines 165-180.  It runs after a render    *)
(* in which gameState or gameLoop changed; gameLoop changes with           *)
(* gameState, speed, direction, food, score, level or highScore (lines     *)
(* 152, 162).  Its cleanup cancels the requested frame.                    *)
(***************************************************************************)
\* the effect without line 167
EffectElapsedKept(gs, elapsed) == elapsed

EffectElapsed(gs, elapsed) == IF gs = "playing" THEN 0 ELSE elapsed
EffectPending(gs) == gs = "playing"

StartLoopEffect ==
    /\ sinceLastMove' = EffectElapsed(gameState', sinceLastMove)
    /\ rafPending' = EffectPending(gameState')

(***************************************************************************)
(* History                                                                 *)
(***************************************************************************)
\* kind: "none", "start", "resume", "reset" or "step"; since: time since that
\* event, saturated; for a step, from: the kind of the mark it replaced, and
\* waited: sinceLastMove when the frame callback ran
NoMark == [kind |-> "none", since |-> 0, from |-> "none", waited |-> 0]

RecordEntry(kind) ==
    /\ mark' = IF observing
               THEN [kind |-> kind, since |-> 0, from |-> "none", waited |-> 0]
               ELSE mark
    /\ lastStepDir' = IF observing /\ kind # "resume" THEN "NONE" ELSE lastStepDir

RecordStep ==
    /\ mark' = IF observing
               THEN [kind |-> "step", since |-> 0, from |-> mark.kind,
                     waited |-> sinceLastMove]
               ELSE mark
    /\ lastStepDir' = IF observing THEN direction ELSE lastStepDir

Budget == IF observing THEN MaxObservedMoves ELSE MaxMoves

(***************************************************************************)
(* Initial state: the component as mounted (lines 33-40, 43-57)            *)
(***************************************************************************)
StartCell == [x |-> START_XY, y |-> START_XY]
FoodCell == [x |-> FOOD_XY, y |-> FOOD_XY]

Mounted ==
    /\ gameState = "menu"
    /\ snake = <<StartCell>>
    /\ direction = "RIGHT"
    /\ food = FoodCell
    /\ score = 0
    /\ highScore \in 0..MaxSavedHighScore
    /\ speed = INITIAL_SPEED
    /\ level = 1
    /\ sinceLastMove = 0
    /\ rafPending = FALSE
    /\ moves = 0
    /\ lastStepDir = "NONE"
    /\ mark = NoMark

Init == Mounted /\ observing = FALSE

\* the same, with the history recorded
InitObserved == Mounted /\ observing = TRUE

(***************************************************************************)
(* A game in progress after n meals: the snake lies along the rows of the  *)
(* grid from the corner (0,0), the food is the next cell of that path, and *)
(* level and speed are what the n eating steps of moveSnake made them.     *)
(***************************************************************************)
PathCell(i) ==
    LET r == i \div GRID_SIZE
        c == i % GRID_SIZE
    IN  [x |-> IF r % 2 = 0 THEN c ELSE GRID_SIZE - 1 - c, y |-> r]

PathSnake(n) == [k \in 1..(n + 1) |-> PathCell(n + 1 - k)]

PathDirection(n) ==
    IF n % GRID_SIZE = GRID_SIZE - 1 THEN "DOWN"
    ELSE IF (n \div GRID_SIZE) % 2 = 0 THEN "RIGHT" ELSE "LEFT"

\* the meals at which moveSnake found newLevel # level (line 141)
LevelChanges(n) ==
    {m \in 1..n : NewLevel(m) # (IF m = 1 THEN 1 ELSE NewLevel(m - 1))}

\* level and speed after n meals: level was last set to NewLevel(n), speed
\* at the latest level change (lines 140-145)
AfterMeals(n) ==
    LET changes == LevelChanges(n)
        latest == CHOOSE m \in changes : \A k \in changes : k <= m
    IN  [level |-> IF n = 0 THEN 1 ELSE NewLevel(n),
         speed |-> IF changes = {} THEN INITIAL_SPEED
                   ELSE NewSpeed(NewLevel(latest))]

\* a game in progress with snake s heading d and the food on f: one meal
\* for every cell after the first (lines 130-136)
GameInProgress(s, d, f) ==
    /\ gameState = "playing"
    /\ snake = s
    /\ direction = d
    /\ food = f
    /\ score = Len(s) - 1
    /\ highScore \in 0..MaxSavedHighScore
    /\ speed = AfterMeals(Len(s) - 1).speed
    /\ level = AfterMeals(Len(s) - 1).level
    /\ sinceLastMove = 0
    /\ rafPending = TRUE
    /\ moves = MaxMoves - MidMoves
    /\ lastStepDir = "NONE"
    /\ mark = NoMark

MidGame(n) == GameInProgress(PathSnake(n), PathDirection(n), PathCell(n + 1))

\* a four-cell snake that has turned round at the end of the first row: its
\* head is below its tail
CoiledSnake == [k \in 1..4 |-> PathCell(GRID_SIZE + 2 - k)]

Coiled == GameInProgress(CoiledSnake, "LEFT", PathCell(GRID_SIZE + 2))

\* a closed tour of the grid: up the column x = 0, then along the rows of
\* the other columns, ending beside its first cell
RingCell(i) ==
    LET j == (i % (GRID_SIZE * GRID_SIZE)) - GRID_SIZE
        r == j \div (GRID_SIZE - 1)
        c == j % (GRID_SIZE - 1)
    IN  IF j < 0 THEN [x |-> 0, y |-> -j - 1]
        ELSE [x |-> IF r % 2 = 0 THEN c + 1 ELSE GRID_SIZE - 1 - c, y |-> r]

RingSnake(h, len) ==
    [k \in 1..len |-> RingCell(h + GRID_SIZE * GRID_SIZE + 1 - k)]

RingDirection(h) ==
    CHOOSE d \in DirectionNames :
        /\ RingCell(h).x + DIRECTIONS[d].x = RingCell(h + 1).x
        /\ RingCell(h).y + DIRECTIONS[d].y = RingCell(h + 1).y

\* the end of a game played round the tour: the snake covers the grid but
\* for the two cells ahead of its head, the food is on the nearer one, and
\* both are cells Math.random can give
NearlyFull(h) ==
    /\ RingCell(h + 1) \in [x : RandomXs, y : RandomYs]
    /\ RingCell(h + 2) \in [x : RandomXs, y : RandomYs]
    /\ GameInProgress(RingSnake(h, GRID_SIZE * GRID_SIZE - 2),
                      RingDirection(h), RingCell(h + 1))

InitMidGame ==
    /\ \/ \E n \in 0..MaxMidScore : MidGame(n)
       \/ Coiled
       \/ \E h \in 0..(GRID_SIZE * GRID_SIZE - 1) : NearlyFull(h)
    /\ observing = FALSE

(***************************************************************************)
(* Handlers                                                                *)
(***************************************************************************)
\* startGame, lines 328-331
startGame ==
    /\ gameState' = "playing"
    /\ UNCHANGED <<snake, direction, food, score, highScore, speed, level, moves>>
    /\ StartLoopEffect
    /\ RecordEntry("start")

\* togglePause, lines 333-339
togglePause ==
    /\ gameState' = CASE gameState = "playing" -> "paused"
                      [] gameState = "paused" -> "playing"
                      [] OTHER -> gameState
    /\ UNCHANGED <<snake, direction, food, score, highScore, speed, level, moves>>
    /\ IF gameState' # gameState
       THEN StartLoopEffect
       ELSE UNCHANGED <<sinceLastMove, rafPending>>
    /\ IF gameState = "paused"
       THEN RecordEntry("resume")
       ELSE UNCHANGED hist

\* a reset that leaves the direction as the last game made it
resetGameKeepingDirection ==
    /\ snake' = <<StartCell>>
    /\ food' = FoodCell
    /\ score' = 0
    /\ speed' = INITIAL_SPEED
    /\ level' = 1
    /\ gameState' = "playing"
    /\ UNCHANGED <<direction, highScore, moves>>
    /\ StartLoopEffect
    /\ RecordEntry("reset")

\* resetGame, lines 341-350.  setFood is given a new object, so the render
\* always changes gameLoop and the effect always runs.
resetGame ==
    /\ snake' = <<StartCell>>
    /\ direction' = "RIGHT"
    /\ food' = FoodCell
    /\ score' = 0
    /\ speed' = INITIAL_SPEED
    /\ level' = 1
    /\ gameState' = "playing"
    /\ UNCHANGED <<highScore, moves>>
    /\ StartLoopEffect
    /\ RecordEntry("reset")

\* lines 304-319: a direction key while playing or paused
setDirection(d) ==
    /\ direction' = Turned(direction, d)
    /\ UNCHANGED <<gameState, snake, food, score, highScore, speed, level, moves>>
    /\ IF direction' # direction
       THEN StartLoopEffect
       ELSE UNCHANGED <<sinceLastMove, rafPending>>
    /\ UNCHANGED hist

\* handleKeyPress with the reset key not checked against the game state
KeyDownResetAnywhere(code) ==
    /\ IF gameState = "menu" /\ code \in {"Space", "Enter"} THEN startGame
       ELSE IF code = "KeyR" THEN resetGame
       ELSE IF gameState \in {"playing", "paused"} /\ code = "Space"
            THEN togglePause
       ELSE IF gameState \in {"playing", "paused"} /\ KeyDirection(code) # "NONE"
            THEN setDirection(KeyDirection(code))
       ELSE UNCHANGED <<prog, moves, hist>>
    /\ UNCHANGED observing

\* handleKeyPress, lines 283-322
KeyDown(code) ==
    /\ IF gameState = "menu" /\ code \in {"Space", "Enter"} THEN startGame
       ELSE IF gameState = "gameOver" /\ code = "KeyR" THEN resetGame
       ELSE IF gameState \in {"playing", "paused"} /\ code = "Space"
            THEN togglePause
       ELSE IF gameState \in {"playing", "paused"} /\ code = "KeyR"
            THEN resetGame
       ELSE IF gameState \in {"playing", "paused"} /\ KeyDirection(code) # "NONE"
            THEN setDirection(KeyDirection(code))
       ELSE UNCHANGED <<prog, moves, hist>>
    /\ UNCHANGED observing

\* the buttons, lines 449-483: each is rendered only in the states named
Click(button) ==
    /\ CASE button = "start"   -> gameState = "menu"
         [] button = "pause"   -> gameState \in {"playing", "paused"}
         [] button = "restart" -> gameState \in {"playing", "paused", "gameOver"}
    /\ CASE button = "start"   -> startGame
         [] button = "pause"   -> togglePause
         [] button = "restart" -> resetGame
    /\ UNCHANGED observing

\* moveSnake, lines 106-152, called with gameState = "playing", and the
\* render and effect that follow the frame callback
moveSnake ==
    LET head == NextHead(snake, direction)
        grown == <<head>> \o snake
    IN  IF checkCollision(head, snake)
        THEN /\ gameState' = "gameOver"
             /\ highScore' = HighScoreAfterCollision(score, highScore)
             /\ UNCHANGED <<snake, direction, food, score, speed, level>>
             /\ sinceLastMove' = ElapsedAfterStep(sinceLastMove, speed)
             /\ rafPending' = EffectPending("gameOver")
        ELSE IF head.x = food.x /\ head.y = food.y
        THEN /\ snake' = grown
             /\ score' = NewScore(score)
             /\ food' \in generateFood(grown)
             /\ level' = LevelAfterEating(NewLevel(NewScore(score)), level)
             /\ speed' = SpeedAfterEating(NewLevel(NewScore(score)), level, speed)
             /\ UNCHANGED <<gameState, direction, highScore>>
             /\ StartLoopEffect
        ELSE /\ snake' = Pop(grown)
             /\ UNCHANGED <<gameState, direction, food, score, highScore,
                            speed, level>>
             /\ sinceLastMove' = ElapsedAfterStep(sinceLastMove, speed)
             /\ rafPending' = TRUE

\* gameLoop, lines 155-162: one animation frame
GameLoop ==
    /\ rafPending
    /\ IF StepDue(gameState, sinceLastMove, speed)
       THEN /\ moves < Budget
            /\ moveSnake
            /\ moves' = moves + 1
            /\ RecordStep
       ELSE UNCHANGED <<prog, moves, hist>>
    /\ UNCHANGED observing

\* the clock advances by dt
Advance(dt) ==
    /\ sinceLastMove' = Min(sinceLastMove + dt, TimeCap)
    /\ mark' = IF observing
               THEN [mark EXCEPT !.since = Min(@ + dt, TimeCap)]
               ELSE mark
    /\ UNCHANGED <<gameState, snake, direction, food, score, highScore, speed,
                   level, rafPending, moves, observing, lastStepDir>>

Next ==
    \/ Advance(TimeStep)
    \/ GameLoop
    \/ \E code \in PressedKeys : KeyDown(code)
    \/ \E button \in Buttons : Click(button)

Spec == Init /\ [][Next]_vars

SpecObserved == InitObserved /\ [][Next]_vars

SpecMidGame == InitMidGame /\ [][Next]_vars

(***************************************************************************)
(* Properties                                                              *)
(***************************************************************************)
InGrid(c) == 0 <= c.x /\ c.x < GRID_SIZE /\ 0 <= c.y /\ c.y < GRID_SIZE

\* the cell one step from the head of s in direction d
Ahead(s, d) ==
    CASE d = "UP"    -> [x |-> s[1].x, y |-> s[1].y - 1]
      [] d = "DOWN"  -> [x |-> s[1].x, y |-> s[1].y + 1]
      [] d = "LEFT"  -> [x |-> s[1].x - 1, y |-> s[1].y]
      [] d = "RIGHT" -> [x |-> s[1].x + 1, y |-> s[1].y]

Reverse(d) ==
    CASE d = "UP" -> "DOWN" [] d = "DOWN" -> "UP"
      [] d = "LEFT" -> "RIGHT" [] d = "RIGHT" -> "LEFT" [] OTHER -> "NONE"

\* a simulation step (moveSnake past its guard) is executed by this transition
SimStep == moves' = moves + 1

\* C1: every snake cell is on the 20 x 20 grid in every reachable state, and a
\* step whose candidate head is off the grid leaves the snake as it was.
C1_SnakeOnGrid ==
    /\ [](\A i \in 1..Len(snake) : InGrid(snake[i]))
    /\ [][SimStep /\ ~InGrid(Ahead(snake, direction)) => snake' = snake]_vars

\* a step ran into a wall: the game is over with the head at the edge, facing out
C1_Witness ==
    /\ gameState = "gameOver"
    /\ moves > 0
    /\ ~InGrid(Ahead(snake, direction))

\* C2: while playing or paused the food is on no snake cell.
C2_FoodOffSnake ==
    gameState \in {"playing", "paused"} => food \notin Cells(snake)

\* the first meal was eaten at (15,15) and new food was placed
C2_Witness ==
    /\ gameState = "playing"
    /\ score = 1
    /\ Len(snake) = 2
    /\ snake[1] = FoodCell
    /\ food # FoodCell

\* C3: of two consecutive simulation steps of one game, the later never uses
\* the heading opposite to the one the earlier used.
C3_NeverReverses ==
    [][SimStep /\ lastStepDir # "NONE" => direction # Reverse(lastStepDir)]_vars

\* C4: while playing or paused a direction key sets the heading to its
\* direction unless that is the opposite of the current heading, which it
\* leaves; in menu and gameOver a direction key leaves the heading.
C4_DirectionKeys ==
    [][\A code \in KeyCodes :
          KeyDirection(code) # "NONE" /\ KeyDown(code) =>
              direction' = IF /\ gameState \in {"playing", "paused"}
                              /\ KeyDirection(code) # Reverse(direction)
                           THEN KeyDirection(code)
                           ELSE direction]_vars

\* the heading is LEFT before any step of the first game: two accepted keys
C4_Witness ==
    /\ gameState \in {"playing", "paused"}
    /\ moves = 0
    /\ direction = "LEFT"

\* the candidate head of the next step is off the grid or on the snake
Collides ==
    \/ ~InGrid(Ahead(snake, direction))
    \/ Ahead(snake, direction) \in Cells(snake)

\* a key the handler has no command for in game state gs
IgnoredIn(gs, code) ==
    \/ gs = "menu" /\ code \notin {"Space", "Enter"}
    \/ gs = "gameOver" /\ code # "KeyR"

\* C5: gameState changes only menu -> playing on start, playing <-> paused
\* on pause, paused or gameOver -> playing on reset, and playing -> gameOver
\* on a colliding step; a key with no command in menu or gameOver, and the
\* pause handler there, change nothing; menu is never re-entered.
C5_Transitions ==
    /\ [][gameState' # gameState =>
            \/ /\ gameState = "menu" /\ gameState' = "playing"
               /\ KeyDown("Space") \/ KeyDown("Enter") \/ Click("start")
            \/ /\ gameState = "playing" /\ gameState' = "paused"
               /\ KeyDown("Space") \/ Click("pause")
            \/ /\ gameState = "paused" /\ gameState' = "playing"
               /\ \/ KeyDown("Space") \/ Click("pause")
                  \/ KeyDown("KeyR") \/ Click("restart")
            \/ /\ gameState = "gameOver" /\ gameState' = "playing"
               /\ KeyDown("KeyR") \/ Click("restart")
            \/ /\ gameState = "playing" /\ gameState' = "gameOver"
               /\ SimStep /\ Collides]_vars
    /\ [][\A code \in KeyCodes :
            KeyDown(code) /\ IgnoredIn(gameState, code) => UNCHANGED vars]_vars
    /\ [][togglePause /\ gameState \in {"menu", "gameOver"} =>
            UNCHANGED <<prog, moves>>]_vars
    /\ [][gameState' = "menu" => gameState = "menu"]_vars

\* a game ended in a collision
C5_Witness == gameState = "gameOver" /\ moves > 0

\* a step has been executed since the mid-game start
SteppedSinceMidGame == moves > MaxMoves - MidMoves

\* C6: level = floor(score / 5) + 1 in every reachable state.
C6_LevelFromScore == level = (score \div 5) + 1

\* an eating step took the score from 4 to 5 and the level to 2
C6_Witness ==
    /\ SteppedSinceMidGame
    /\ score = 5
    /\ Len(snake) = 6
    /\ level = 2

\* C7: speed = max(50, 150 - (level - 1) * 10) in every reachable state, so it
\* stays within 50..150, and it never increases when the score grows.
C7_TickInterval ==
    /\ [](/\ speed = Max(50, 150 - (level - 1) * 10)
          /\ 50 <= speed /\ speed <= 150)
    /\ [][score' > score => speed' <= speed]_vars

\* an eating step took the score from 54 to 55, level 12, where the floor cuts
\* the interval off at 50
C7_Witness ==
    /\ SteppedSinceMidGame
    /\ score = 55
    /\ level = 12
    /\ speed = 50

\* C8: a simulation step is executed only while playing and only when the
\* time since the latest step or entry into playing is at least speed; in
\* menu, paused and gameOver neither the clock nor a frame callback changes
\* snake, food, score, level or speed.
C8_StepOnlyWhenDue ==
    /\ [][SimStep => gameState = "playing" /\ mark.since >= speed]_vars
    /\ [][gameState # "playing" /\ (Advance(TimeStep) \/ GameLoop) =>
            UNCHANGED <<snake, food, score, level, speed>>]_vars

\* a second step was executed exactly one interval after the first
C8_Witness ==
    /\ mark.kind = "step"
    /\ mark.from = "step"
    /\ mark.waited = speed

\* C9: the first simulation step after a resume comes no earlier than speed
\* after the resume, whatever had elapsed before or during the pause.
C9_FullIntervalAfterResume ==
    /\ [][SimStep /\ mark.kind = "resume" => mark.since >= speed]_vars
    /\ [][gameState = "paused" /\ gameState' = "playing" =>
            sinceLastMove' = 0]_vars

\* the latest step was the first after a resume
C9_Witness ==
    /\ mark.kind = "step"
    /\ mark.from = "resume"
    /\ moves > 1

\* C10: a frame callback that finds two or more intervals elapsed executes
\* exactly one step, which moves the head one cell (or ends the game), and
\* sets the baseline to its own time.
C10_OneStepPerPoll ==
    [][GameLoop /\ gameState = "playing" /\ sinceLastMove >= 2 * speed =>
          /\ SimStep
          /\ sinceLastMove' = 0
          /\ gameState' = "playing" =>
                /\ snake'[1] = Ahead(snake, direction)
                /\ Len(snake') \in {Len(snake), Len(snake) + 1}
                /\ \A i \in 2..Len(snake') : snake'[i] = snake[i - 1]
          /\ gameState' # "playing" => snake' = snake]_vars

\* the latest step ran after two full intervals and moved the snake on
C10_Witness ==
    /\ gameState = "playing"
    /\ mark.kind = "step"
    /\ mark.waited >= 2 * speed

\* C11: in a step while playing whose candidate head is free of collision and
\* equals the food, the score grows by exactly one, the snake is the candidate
\* head followed by the whole old snake (tail kept, order kept, one cell
\* longer), and the new food is a grid cell outside the grown snake.
C11_EatingStep ==
    [][(SimStep /\ ~Collides /\ Ahead(snake, direction) = food)
        => /\ score' = score + 1
           /\ Len(snake') = Len(snake) + 1
           /\ snake'[1] = Ahead(snake, direction)
           /\ \A i \in 1..Len(snake) : snake'[i + 1] = snake[i]
           /\ InGrid(food')
           /\ food' \notin Cells(snake')]_vars

C11_Witness ==
    /\ gameState = "playing"
    /\ score = 1
    /\ snake = <<FoodCell, [x |-> FOOD_XY - 1, y |-> FOOD_XY]>>
    /\ food # FoodCell

\* C12: a step while playing whose candidate head is off the grid or on any
\* cell of the snake, the current tail cell included, ends the game: the state
\* becomes gameOver, the high score becomes the larger of high score and
\* score, and snake, food, score, level, speed and direction stay as they were.
C12_CollidingStep ==
    [][(SimStep /\ (~InGrid(Ahead(snake, direction))
                    \/ Ahead(snake, direction) \in Cells(snake)))
        => /\ gameState' = "gameOver"
           /\ highScore' = Max(highScore, score)
           /\ UNCHANGED <<snake, food, score, level, speed, direction>>]_vars

C12_Witness ==
    /\ gameState = "gameOver"
    /\ Len(snake) >= 4
    /\ Ahead(snake, direction) = snake[Len(snake)]
    /\ highScore = score

\* C13: the high score changes only in a colliding step whose score is above
\* it, and then it becomes the score; every other transition (start, pause,
\* resume, direction key, non-colliding step, reset from any state) leaves it
\* as it is; so it never decreases.
C13_HighScore ==
    /\ [][highScore' # highScore
            => /\ SimStep /\ Collides
               /\ score > highScore
               /\ highScore' = score]_vars
    /\ [][(SimStep /\ Collides /\ score > highScore)
            => highScore' = score]_vars
    /\ [][highScore' >= highScore]_vars

C13_Witness ==
    /\ gameState = "gameOver"
    /\ score > MaxSavedHighScore
    /\ highScore = score
    /\ ~InGrid(Ahead(snake, direction))

\* a reset command: the R key outside the menu, or the restart button
ResetCommand == (gameState # "menu" /\ KeyDown("KeyR")) \/ Click("restart")

\* a start command: Space or Enter in the menu, or the start button
StartCommand ==
    \/ gameState = "menu" /\ (KeyDown("Space") \/ KeyDown("Enter"))
    \/ Click("start")

\* C14 as stated: across every step and command that leaves the game state
\* playing, the snake does not get shorter.
C14_NeverShorterWhilePlaying ==
    [][(gameState = "playing" /\ gameState' = "playing")
        => Len(snake') >= Len(snake)]_vars

\* C14, amended: apart from a reset, no step and no command shortens the snake: a
\* plain step, a colliding step, pause, resume and a direction key leave its
\* length as it is, an eating step adds one; and right after every reset or
\* start the length is exactly 1.
C14_Length ==
    /\ [][~ResetCommand
            => IF SimStep /\ ~Collides /\ Ahead(snake, direction) = food
               THEN Len(snake') = Len(snake) + 1
               ELSE Len(snake') = Len(snake)]_vars
    /\ [][(ResetCommand \/ StartCommand) => Len(snake') = 1]_vars

C14_Witness ==
    /\ gameState = "playing"
    /\ snake = <<StartCell>>
    /\ moves > MaxMoves - MidMoves

\* C15: in every reachable state the snake has at least one cell and no cell
\* occurs in it twice.
C15_DistinctCells ==
    /\ Len(snake) >= 1
    /\ Cardinality(Cells(snake)) = Len(snake)

\* the game has ended on a step into the snake's own neck
C15_Witness ==
    /\ gameState = "gameOver"
    /\ Len(snake) >= 2
    /\ Ahead(snake, direction) = snake[2]

\* the k-th state of the run from a fresh game with no turn and no reset
OnTrack(k) ==
    /\ gameState = "playing"
    /\ moves = k
    /\ snake = <<[x |-> START_XY + k, y |-> START_XY]>>
    /\ direction = "RIGHT"
    /\ food = FoodCell
    /\ score = 0

\* C16: a plain step (candidate head neither colliding nor on the food) makes
\* the snake the old head moved one cell in the direction, followed by the old
\* snake without its last cell, and leaves length, score, level, speed and
\* food as they were; so the five steps from snake [(10,10)] heading RIGHT
\* with the food on (15,15) end with the head on (15,10) and one cell.
C16_PlainStep ==
    /\ [][(SimStep /\ ~Collides /\ Ahead(snake, direction) # food)
            => /\ snake' = <<Ahead(snake, direction)>>
                             \o SubSeq(snake, 1, Len(snake) - 1)
               /\ Len(snake') = Len(snake)
               /\ UNCHANGED <<score, level, speed, food>>]_vars
    /\ [][\A k \in 0..4 : (OnTrack(k) /\ SimStep) => OnTrack(k + 1)']_vars

C16_Witness ==
    /\ OnTrack(5)
    /\ snake[1] = [x |-> 15, y |-> 10]
    /\ Len(snake) = 1

\* the cells generateFood could return for snake s if Math.random gave every
\* column and row (lines 87-91); none is left when s covers the grid
FreeCells(s) ==
    {c \in [x : 0..(GRID_SIZE - 1), y : 0..(GRID_SIZE - 1)] : c \notin Cells(s)}

\* C17: in every reachable state the snake is shorter than the number of grid
\* cells, so every food placement, made for the snake grown by the cell it
\* has just eaten, has at least one free cell to choose and its resample loop
\* can finish.
C17_GridNeverFull ==
    /\ Len(snake) < GRID_SIZE * GRID_SIZE
    /\ (gameState = "playing" /\ ~Collides /\ Ahead(snake, direction) = food)
        => FreeCells(<<Ahead(snake, direction)>> \o snake) # {}

\* the state of a new game (lines 34-40)
Fresh ==
    /\ snake = <<[x |-> 10, y |-> 10]>>
    /\ direction = "RIGHT"
    /\ score = 0
    /\ level = 1
    /\ speed = 150
    /\ food = [x |-> 15, y |-> 15]

\* C18: every entry into playing by a start or a reset lands in the state of
\* a new game: snake [(10,10)], heading RIGHT, score 0, level 1, speed 150,
\* food (15,15); this holds for start although it sets the game state alone.
C18_FreshOnEntry ==
    [][(StartCommand \/ ResetCommand)
        => (gameState' = "playing" /\ Fresh')]_vars

\* a new game after one that was lost with a new high score
C18_Witness ==
    /\ gameState = "playing"
    /\ Fresh
    /\ highScore > MaxSavedHighScore

\* C19: a direction key accepted while playing changes the direction and
\* nothing else: snake, food, score, level, speed, game state, high score and
\* the time elapsed since the loop's baseline (the baseline itself, the key
\* taking no time) stay as they were, so the key neither postpones nor
\* advances the next step.
C19_KeyOnlyTurns ==
    [][\A code \in KeyCodes :
        (/\ gameState = "playing"
         /\ KeyDirection(code) \notin {"NONE", Reverse(direction)}
         /\ KeyDown(code))
        => /\ direction' = KeyDirection(code)
           /\ UNCHANGED <<snake, food, score, level, speed, gameState,
                          highScore, sinceLastMove>>]_vars

\* C20: in every reachable state the snake has one cell more than the score.
C20_LengthFromScore == Len(snake) = score + 1

\* a meal has been eaten after the longest mid-game start
C20_Witness ==
    /\ score = MaxMidScore + 1
    /\ Len(snake) = MaxMidScore + 2
    /\ snake[1] = PathCell(MaxMidScore + 1)

\* C21: whenever the game is over, the high score is at least the score of
\* the game that has just ended.
C21_HighScoreCoversScore == gameState = "gameOver" => highScore >= score

\* a game lost on the snake's own body with a score above the saved high score
C21_Witness ==
    /\ gameState = "gameOver"
    /\ Ahead(snake, direction) \in Cells(snake)
    /\ score > MaxSavedHighScore
    /\ highScore = score

\* C22: when the game is over, "NEW HIGH SCORE" is shown (score equal to the
\* high score and above 0) only if the collision that ended the game raised
\* the high score, that is, the score was above the high score held before
\* that collision.  Score and high score are fixed while the game is over, so
\* this is a statement about the step that ends the game.
C22_ShownOnlyWhenRaised ==
    [][(SimStep /\ Collides /\ NewHighScoreShown(score', highScore'))
        => (gameState' = "gameOver" /\ score > highScore)]_vars

====
